---- MODULE Spec2Model ----
(***************************************************************************)
(* create-stylish-app: the provisioning pipeline of src/index.js.          *)
(*                                                                         *)
(* src/index.js holds two revisions of the tool: the clone revision        *)
(* (lines 1-291: HTTP existence check, git clone of a per-template         *)
(* repository) and the tarball revision (lines 293-625: static template    *)
(* map, download and extraction of the template-kit archive).  Both are    *)
(* modelled; the variable revision says which one a behaviour runs.        *)
(*                                                                         *)
(* pc is the position of the running process; the filesystem (projDir,     *)
(* tmpdir, invocationDir) outlives the process, so a second invocation     *)
(* (Reinvoke) sees what the first one left behind.  In SpecPar a second    *)
(* invocation runs concurrently: the variables of a process are those of   *)
(* the invocation that has the processor, the other one's are kept in      *)
(* suspended until Switch hands the processor over.                        *)
(*                                                                         *)
(* Strings the code inspects character by character (the user agent) are   *)
(* sequences of one-character strings.  A path is a string too, a sequence *)
(* of pieces: the separator "/" is a piece of its own, and a name is one   *)
(* piece or, where one name begins with another, several.                  *)
(***************************************************************************)
EXTENDS Integers, Sequences, FiniteSets, TLC

VARIABLES
  revision,       \* "clone" (index.js 1-291) or "tarball" (index.js 293-625)
  argv,           \* [args: positional arguments, template: values of -t]
  env,            \* process.env.npm_config_user_agent: <<>> unset, <<s>> set to s
  pc,             \* position of the running process
  exitCode,       \* exit status, meaningful when pc = "exited"
  template,       \* options.template after commander applied the default
  projDir,        \* the filesystem entry at cwd/appName
  tmpdir,         \* os.tmpdir(): the archive files, [name, complete, entries, manifest]
  invocationDir,  \* the directory the tool was invoked in: [files, manifest]
  tarFile,        \* downloadAndExtractTemplate's local: <<>> or <<name>>
  tempFile,       \* downloadTarball's local: <<>> or <<name>>
  pending,        \* <<>> or <<error>>: an exception travelling to finally
  cwd,            \* process.cwd(): "invocation" or "project"
  spinner,        \* the ora indicator: none, spinning, succeed, fail
  packageManager, \* installDependencies' local const
  history,        \* external operations of this run, in order
  output,         \* messages printed by this run, in order
  fetched,        \* what this run fetched of the template: [files, manifest]
  dirAtStart,     \* projDir as this run found it
  runNo,          \* number of the running invocation
  previous,       \* <<>> or the invocation before this one: [exitCode,
                  \* madeDirectory, repeated: this one has its command line]
  clock,          \* Date.now()
  self,           \* the invocation the variables above (pc, history, ...) belong to
  suspended       \* <<>>, or <<context>> of a second invocation, not running now

vars == <<revision, argv, env, pc, exitCode, template, projDir, tmpdir,
          invocationDir, tarFile, tempFile, pending, cwd, spinner,
          packageManager, history, output, fetched, dirAtStart, runNo, previous,
          clock, self, suspended>>

-----------------------------------------------------------------------------
(* Bounds *)

\* invocations of the tool one after the other on the same filesystem
MaxRuns == 2

\* length of the user-agent strings of SpecUA
MaxUALen == 5

\* number of components of the entry paths of SpecTar
MaxDepth == 4

\* the last millisecond of SpecPar's clock
MaxClock == 2

-----------------------------------------------------------------------------
(* Strings *)

\* String.prototype.startsWith
startsWith(s, p) == Len(s) >= Len(p) /\ SubSeq(s, 1, Len(p)) = p

Yarn == <<"y", "a", "r", "n">>
Pnpm == <<"p", "n", "p", "m">>
Bun  == <<"b", "u", "n">>

\* process.env.npm_config_user_agent || ''
userAgentOf(e) == IF e = <<>> THEN <<>> ELSE e[1]

\* variant: bun recognised by its first two letters
getPackageManagerShortBunPrefix(e) ==
  LET userAgent == userAgentOf(e) IN
  IF startsWith(userAgent, Yarn) THEN "yarn"
  ELSE IF startsWith(userAgent, Pnpm) THEN "pnpm"
  ELSE IF startsWith(userAgent, <<"b", "u">>) THEN "bun"
  ELSE "npm"

\* getPackageManager with the three prefix checks in the order of the source.
getPackageManager(e) ==
  LET userAgent == userAgentOf(e) IN
  IF startsWith(userAgent, Yarn) THEN "yarn"
  ELSE IF startsWith(userAgent, Pnpm) THEN "pnpm"
  ELSE IF startsWith(userAgent, Bun) THEN "bun"
  ELSE "npm"

-----------------------------------------------------------------------------
(* Objects and template maps *)

\* Keys every object literal inherits from Object.prototype; the `in`
\* operator and a property read both see them.
ObjectPrototype ==
  [constructor |-> "function Object() { [native code] }",
   toString    |-> "function toString() { [native code] }",
   valueOf     |-> "function valueOf() { [native code] }",
   hasOwnProperty |-> "function hasOwnProperty() { [native code] }",
   __proto__   |-> "[object Object]"]

\* key in obj
hasProperty(obj, key) == key \in (DOMAIN obj) \cup (DOMAIN ObjectPrototype)

\* `${obj[key]}`
getProperty(obj, key) ==
  IF key \in DOMAIN obj THEN obj[key]
  ELSE IF key \in DOMAIN ObjectPrototype THEN ObjectPrototype[key]
  ELSE "undefined"

\* !!obj[key]: every value of the maps and of Object.prototype is truthy
truthyProperty(obj, key) == key \in (DOMAIN obj) \cup (DOMAIN ObjectPrototype)

TEMPLATE_MAP ==
  [next      |-> "next-app",
   react     |-> "react-app",
   ethereum  |-> "ethereum-dapp",
   astro     |-> "astro-app",
   extension |-> "extension",
   ui        |-> "ui-kit"]

repositoryAliasMap ==
  [k \in {"react", "next", "vanilla", "ethereum", "web", "pure-react", "extension"} |->
     CASE k = "react"      -> "react-app"
       [] k = "next"       -> "next-app"
       [] k = "vanilla"    -> "vanilla-app"
       [] k = "ethereum"   -> "ethereum-dapp"
       [] k = "web"        -> "web-app"
       [] k = "pure-react" -> "pure-react-app"
       [] k = "extension"  -> "extension"]

RepositoryNames == {repositoryAliasMap[k] : k \in DOMAIN repositoryAliasMap}

isValidTemplate(t) == hasProperty(TEMPLATE_MAP, t)

\* getRepository: <<>> when it throws, <<alias>> for the URL it returns
getRepository(t) ==
  IF ~truthyProperty(repositoryAliasMap, t) THEN <<>>
  ELSE <<getProperty(repositoryAliasMap, t)>>

\* variant: the command always spelled with npm
getStartScriptNpm(rev, t, e) ==
  LET devTemplates ==
        IF rev = "tarball"
          THEN {"react", "next", "ethereum", "astro", "ui"}
          ELSE {"react", "next", "vanilla", "ethereum", "web", "pure-react"}
  IN  IF t \in devTemplates THEN <<"npm", "run", "dev">>
      ELSE IF t = "extension" THEN <<"npm", "run", "build">>
      ELSE <<>>

\* variant: the switch not extended when the astro template was added
getStartScriptWithoutAstro(rev, t, e) ==
  LET devTemplates ==
        IF rev = "tarball"
          THEN {"react", "next", "ethereum", "ui"}
          ELSE {"react", "next", "vanilla", "ethereum", "web", "pure-react"}
  IN  IF t \in devTemplates THEN <<getPackageManager(e), "run", "dev">>
      ELSE IF t = "extension" THEN <<getPackageManager(e), "run", "build">>
      ELSE <<>>

\* getStartScript of either revision: <<manager, "run", script>>, <<>> for ''
getStartScript(rev, t, e) ==
  LET devTemplates ==
        IF rev = "tarball"
          THEN {"react", "next", "ethereum", "astro", "ui"}
          ELSE {"react", "next", "vanilla", "ethereum", "web", "pure-react"}
  IN  IF t \in devTemplates THEN <<getPackageManager(e), "run", "dev">>
      ELSE IF t = "extension" THEN <<getPackageManager(e), "run", "build">>
      ELSE <<>>

-----------------------------------------------------------------------------
(* Manifests *)

ManifestKeys == {"name", "version", "description", "author", "scripts", "private"}
TemplateValues == {"kit"}

NoObject == [k \in {} |-> "kit"]
Absent    == [state |-> "absent", obj |-> NoObject]
Malformed == [state |-> "malformed", obj |-> NoObject]
Object(f) == [state |-> "object", obj |-> f]

\* what a template can ship as package.json
TemplateManifests ==
  {Malformed} \cup
  {Object(f) : f \in UNION {[S -> TemplateValues] : S \in SUBSET ManifestKeys}}

\* variant: author left out of the destructuring pattern
nextPackageJsonKeepAuthor(projectPackageJson, appName) ==
  LET rest == DOMAIN projectPackageJson \ {"description"} IN
  [k \in rest \cup {"name", "version"} |->
     IF k = "name" THEN appName
     ELSE IF k = "version" THEN "0.1.0"
     ELSE projectPackageJson[k]]

\* buildPackageJson, lines 371-376 (89-94): the rest-destructuring and the
\* Object.assign of name and version.
nextPackageJson(projectPackageJson, appName) ==
  LET rest == DOMAIN projectPackageJson \ {"description", "author"} IN
  [k \in rest \cup {"name", "version"} |->
     IF k = "name" THEN appName
     ELSE IF k = "version" THEN "0.1.0"
     ELSE projectPackageJson[k]]

-----------------------------------------------------------------------------
(* The template sources *)

KitRoot == "stylish-app-kit-main"

PackageJson == <<"package.json">>
Lockfile    == <<"pnpm-lock.yaml">>
SourceFile  == <<"src", "/", "index.js">>

\* file trees a template can consist of
TemplateTrees ==
  {{PackageJson, Lockfile, SourceFile}, {PackageJson, SourceFile},
   {Lockfile, SourceFile}}

TemplateDirs == {TEMPLATE_MAP[k] : k \in DOMAIN TEMPLATE_MAP}

\* The archive codeload serves for the kit: a git archive, so it holds the
\* tracked files and their directories only and never a .git directory.
Archive(tree) ==
  {<<KitRoot, "/">>, <<KitRoot, "/", "README.md">>,
   <<KitRoot, "/", "templates", "/">>} \cup
  {<<KitRoot, "/", "templates", "/", d, "/">> : d \in TemplateDirs} \cup
  {<<KitRoot, "/", "templates", "/", d, "/">> \o f : d \in TemplateDirs, f \in tree}

\* variant: the prefix without its closing separator
prefixWithoutSlash(templateDir) == <<KitRoot, "/", "templates", "/", templateDir>>

\* extractTemplate's prefix: `stylish-app-kit-main/templates/${templateDir}/`
prefix(templateDir) == <<KitRoot, "/", "templates", "/", templateDir, "/">>

\* extractTemplate's filter: path.startsWith(prefix)
filter(path, templateDir) == startsWith(path, prefix(templateDir))

\* tar's strip: the path without its first n components; empty when it has
\* no more than n
RECURSIVE stripComponents(_, _)
stripComponents(path, n) ==
  IF n = 0 \/ path = <<>> THEN path
  ELSE stripComponents(Tail(path), IF Head(path) = "/" THEN n - 1 ELSE n)

\* strip: 3
strip(path) == stripComponents(path, 3)

\* what the extraction writes below the target directory; an entry left
\* with the empty path is the target directory itself
extracted(entries, t) ==
  {strip(p) : p \in {q \in entries : filter(q, getProperty(TEMPLATE_MAP, t))}} \ {<<>>}

-----------------------------------------------------------------------------
(* The filesystem entry at cwd/appName *)

NoGit == [exists |-> FALSE, inherited |-> FALSE, commits |-> 0,
          branch |-> "", staged |-> FALSE]

NoDir == [exists |-> FALSE, files |-> {}, manifest |-> Absent,
          nodeModules |-> FALSE, git |-> NoGit]

EmptyDir == [NoDir EXCEPT !.exists = TRUE]

\* a directory somebody else made: an earlier project with its own history
ForeignDir ==
  [exists |-> TRUE, files |-> {PackageJson, <<"notes.txt">>},
   manifest |-> Object([k \in {"name", "author"} |-> "mine"]),
   nodeModules |-> FALSE,
   git |-> [exists |-> TRUE, inherited |-> FALSE, commits |-> 2,
            branch |-> "work", staged |-> FALSE]]

manifestOf(files, m) == IF PackageJson \in files THEN m ELSE Absent

NothingFetched == [files |-> {}, manifest |-> Absent]

\* the directory the tool is invoked in, a project of the user's with a
\* package.json and a lockfile of its own
InvocationDirAtStart ==
  [files |-> {PackageJson, Lockfile},
   manifest |-> Object([k \in {"name", "author"} |-> "mine"])]

\* resolve(directory, name): the path of name in the directory
resolve(directory, name) == <<directory, "/", name>>

-----------------------------------------------------------------------------
(* Inputs *)

AppName == "demo-app"

\* appName: the first positional argument of the running invocation
appName == argv.args[1]

\* the command lines: the app name given or omitted, -t given or omitted
Argvs ==
  [args : {<<>>, <<AppName>>},
   template : {<<>>, <<"next">>, <<"extension">>, <<"astro">>, <<"vanilla">>,
               <<"bogus">>, <<"constructor">>}]

\* values of npm_config_user_agent: unset, empty, one per manager, and one
\* that merely contains a manager's name
Envs ==
  {<<>>, << <<>> >>,
   <<Yarn \o <<"/", "1">>>>, <<Pnpm \o <<"/", "9">>>>, <<Bun \o <<"/", "1">>>>,
   <<(<<"n", "p", "m", "/">> \o Yarn)>>}

\* result.status of cross-spawn's sync: the exit status, or null when the
\* command could not be started or was killed by a signal
NullStatus == -1

SpawnResults ==
  {[status |-> 0, error |-> "none"], [status |-> 1, error |-> "none"],
   [status |-> NullStatus, error |-> "ENOENT"],
   [status |-> NullStatus, error |-> "SIGTERM"]}

\* what git names the first branch of a new repository (init.defaultBranch)
DefaultBranches == {"master", "main"}

Event(op, arg, silent, status) ==
  [op |-> op, arg |-> arg, silent |-> silent, status |-> status]

Message(msg, arg) == [msg |-> msg, arg |-> arg]

-----------------------------------------------------------------------------
(* Initial states *)

Init ==
  /\ revision \in {"clone", "tarball"}
  /\ argv \in Argvs
  /\ env \in Envs
  /\ pc = "init"
  /\ exitCode = 0
  /\ template = ""
  /\ projDir \in {NoDir, EmptyDir, ForeignDir}
  /\ tmpdir = {}
  /\ invocationDir = InvocationDirAtStart
  /\ tarFile = <<>>
  /\ tempFile = <<>>
  /\ pending = <<>>
  /\ cwd = "invocation"
  /\ spinner = "none"
  /\ packageManager = ""
  /\ history = <<>>
  /\ output = <<>>
  /\ fetched = NothingFetched
  /\ dirAtStart = projDir
  /\ runNo = 1
  /\ previous = <<>>
  /\ clock = 1
  /\ self = 1
  /\ suspended = <<>>

\* what no step of a run changes
fixed == <<revision, argv, env, dirAtStart, runNo, previous, clock, self, suspended>>

\* and with it the directory of the invocation, which only a step working
\* relative to process.cwd() can touch
static == <<fixed, invocationDir>>

-----------------------------------------------------------------------------
(* Steps shared by the two revisions *)

\* variant: result.status > 0, which lets a null status pass
commandFailedOnPositiveStatus(result) == result.status > 0

\* execCommand's test of the spawn result
commandFailed(result) == result.status # 0

\* execCommand: spawn, wait, and process.exit(1) unless the status is 0.
\* The caller continues (sets pc) when commandFailed is false.
execCommand(command, args, silent, result) ==
  /\ history' = Append(history,
                       Event("exec", <<command>> \o args, silent, result.status))
  /\ IF commandFailed(result)
       THEN /\ output' = Append(output, Message("Command failed", <<command>>))
            /\ pc' = "exited"
            /\ exitCode' = 1
       ELSE /\ output' = output
            /\ exitCode' = exitCode

\* variant: appName === ''
appNameUndefinedWhenEmpty(args) == args = <<"">>

\* typeof appName === 'undefined', appName being the first positional argument
appNameUndefined(args) == args = <<>>

\* variant: another default value given to commander's option
optsTemplateDefaultReact(option) == IF option = <<>> THEN "react" ELSE option[1]

\* program.opts().template: the value of -t, commander's default 'next'
\* when the option is not on the command line
optsTemplate(option) == IF option = <<>> THEN "next" ELSE option[1]

\* init: commander's parse, the check of the app name, the call of run
init ==
  /\ pc = "init"
  /\ template' = optsTemplate(argv.template)
  /\ IF appNameUndefined(argv.args)
       THEN /\ output' = Append(output, Message("Please specify a project name", <<>>))
            /\ pc' = "exited"
            /\ exitCode' = 1
       ELSE /\ output' = output
            /\ pc' = "validateTemplate"
            /\ exitCode' = exitCode
  /\ UNCHANGED <<static, projDir, tmpdir, tarFile, tempFile, pending, cwd,
                 spinner, packageManager, history, fetched>>

\* variant: mkdirSync(path, { recursive: true }), content with an existing entry
mkdirSyncRecursive(dir, other) == IF dir.exists THEN "none" ELSE other

\* mkdirSync(path) on the entry at path: the error code, "none" when the
\* directory was made.  other is what else the filesystem may object.
mkdirSync(dir, other) == IF dir.exists THEN "EEXIST" ELSE other

\* createProjectDirectory: mkdirSync(join(cwd, appName))
createProjectDirectory ==
  /\ pc = "createProjectDirectory"
  /\ \E other \in {"none", "EACCES"} :
       LET code == mkdirSync(projDir, other) IN
       /\ history' = Append(history, Event("mkdir", <<appName>>, FALSE,
                                           IF code = "none" THEN 0 ELSE 1))
       /\ IF code = "none"
            THEN /\ projDir' = [projDir EXCEPT !.exists = TRUE]
                 /\ output' = Append(output, Message("Creating", <<template>>))
                 /\ exitCode' = exitCode
                 /\ IF revision = "tarball"
                      THEN pc' = "downloadTarball" /\ spinner' = "spinning"
                      ELSE pc' = "cloneRepository" /\ spinner' = spinner
            ELSE /\ projDir' = projDir
                 /\ output' = output \o
                      <<Message("Creating", <<template>>),
                        IF code = "EEXIST"
                          THEN Message("already exists", <<appName>>)
                          ELSE Message("error", <<code>>)>>
                 /\ pc' = "exited"
                 /\ exitCode' = 1
                 /\ spinner' = spinner
  /\ UNCHANGED <<static, template, tmpdir, tarFile, tempFile, pending, cwd,
                 packageManager, fetched>>

\* variant: the working directory left where it is
chdirNowhere(directory) == cwd

\* process.chdir(directory): the working directory from then on
chdir(directory) == directory

\* process.chdir(appPath); buildPackageJson(resolve(cwd, 'package.json'), appName)
\* and the success report that follows it (lines 481-485, 181-183).
\* A failure to read, parse or write is caught inside buildPackageJson, which
\* calls process.exit(1) there and then.
buildPackageJson ==
  /\ pc = "buildPackageJson"
  /\ cwd' = chdir("project")
  /\ \E written \in BOOLEAN :
       LET \* the argument, _resolve(process.cwd(), 'package.json') at the call
           packageJsonPath == resolve(cwd', "package.json")
           \* the path of writeFileSync, resolved again inside
           writePath == resolve(cwd', "package.json")
           fileContent == IF packageJsonPath[1] = "project" THEN projDir.manifest
                          ELSE invocationDir.manifest
           ok == fileContent.state = "object" /\ written
           rewritten == Object(nextPackageJson(fileContent.obj, appName))
       IN
       /\ history' = history \o
            <<Event("chdir", <<appName>>, FALSE, 0),
              Event("buildPackageJson", <<packageJsonPath, writePath>>, FALSE,
                    IF ok THEN 0 ELSE 1)>>
       /\ IF ok
            THEN /\ projDir' = IF writePath[1] = "project"
                                 THEN [projDir EXCEPT !.manifest = rewritten]
                                 ELSE projDir
                 /\ invocationDir' = IF writePath[1] = "project" THEN invocationDir
                                       ELSE [invocationDir EXCEPT !.manifest = rewritten]
                 /\ output' = output
                 /\ exitCode' = exitCode
                 /\ IF revision = "tarball"
                      THEN pc' = "finally" /\ spinner' = "succeed"
                      ELSE pc' = "removeLockfile" /\ spinner' = spinner
            ELSE /\ projDir' = projDir
                 /\ invocationDir' = invocationDir
                 /\ output' = Append(output, Message("Run command failed", <<>>))
                 /\ pc' = "exited"
                 /\ exitCode' = 1
                 /\ spinner' = spinner
  /\ UNCHANGED <<fixed, template, tmpdir, tarFile, tempFile, pending,
                 packageManager, fetched>>

-----------------------------------------------------------------------------
(* The tarball revision: validation and fetch (index.js 406-495) *)

\* validateTemplate: the static map decides
validateTemplate ==
  /\ pc = "validateTemplate"
  /\ revision = "tarball"
  /\ history' = Append(history, Event("validateTemplate", <<template>>, FALSE,
                                      IF isValidTemplate(template) THEN 0 ELSE 1))
  /\ IF ~isValidTemplate(template)
       THEN /\ output' = Append(output, Message("Template not found", <<template>>))
            /\ pc' = "exited"
            /\ exitCode' = 1
       ELSE /\ output' = output
            /\ pc' = "createProjectDirectory"
            /\ exitCode' = exitCode
  /\ UNCHANGED <<static, template, projDir, tmpdir, tarFile, tempFile, pending,
                 cwd, spinner, packageManager, fetched>>

\* an exception inside downloadAndExtractTemplate's try block: the catch
\* block marks the indicator failed and rethrows; finally runs next
throw(error) ==
  /\ pending' = <<error>>
  /\ spinner' = "fail"
  /\ pc' = "finally"

\* downloadTarball up to the response: the name of the temporary file, the
\* fetch, the check of response.ok
downloadTarball ==
  /\ pc = "downloadTarball"
  /\ tempFile' = <<clock>>
  /\ \E response \in {"ok", "not ok", "network error"} :
       /\ history' = Append(history, Event("fetch", <<"TARBALL_URL">>, FALSE,
                                           IF response = "ok" THEN 0 ELSE 1))
       /\ IF response = "ok"
            THEN pc' = "pipeline" /\ UNCHANGED <<pending, spinner>>
            ELSE throw("Failed to download template")
  /\ UNCHANGED <<static, exitCode, template, projDir, tmpdir, tarFile, cwd,
                 packageManager, output, fetched>>

\* downloadTarball's pipeline(body, createWriteStream(tempFile)) and, when it
\* completes, the assignment of the returned name to tarFile.  The stream
\* creates the file when it opens; a body that breaks off leaves it there.
pipeline ==
  /\ pc = "pipeline"
  /\ \E outcome \in {"complete", "broken off", "not opened"},
        tree \in TemplateTrees, m \in TemplateManifests :
       LET file == [name |-> tempFile[1], complete |-> outcome = "complete",
                    entries |-> Archive(tree), manifest |-> manifestOf(tree, m)] IN
       /\ history' = Append(history, Event("pipeline", <<>>, FALSE,
                                           IF outcome = "complete" THEN 0 ELSE 1))
       /\ tmpdir' = IF outcome = "not opened" THEN tmpdir
                    ELSE {f \in tmpdir : f.name # file.name} \cup {file}
       /\ IF outcome = "complete"
            THEN /\ tarFile' = tempFile
                 /\ pc' = "extractTemplate"
                 /\ UNCHANGED <<pending, spinner>>
            ELSE /\ tarFile' = tarFile
                 /\ throw("pipeline failed")
  /\ UNCHANGED <<static, exitCode, template, projDir, tempFile, cwd,
                 packageManager, output, fetched>>

\* extractTemplate: tar's x with the prefix filter and strip 3, into appPath
extractTemplate ==
  /\ pc = "extractTemplate"
  /\ \E file \in {f \in tmpdir : f.name = tarFile[1]}, done \in BOOLEAN :
       LET files == extracted(file.entries, template) IN
       /\ history' = Append(history, Event("extract", <<template>>, FALSE,
                                           IF done THEN 0 ELSE 1))
       /\ IF done
            THEN /\ projDir' = [projDir EXCEPT
                                  !.files = files,
                                  !.manifest = manifestOf(files, file.manifest)]
                 /\ fetched' = [files |-> files,
                                 manifest |-> manifestOf(files, file.manifest)]
                 /\ pc' = "buildPackageJson"
                 /\ UNCHANGED <<pending, spinner>>
            ELSE /\ UNCHANGED <<projDir, fetched>>
                 /\ throw("extraction failed")
  /\ UNCHANGED <<static, exitCode, template, tmpdir, tarFile, tempFile, cwd,
                 packageManager, output>>

\* the finally block of downloadAndExtractTemplate, and what follows it: the
\* next step of run, or, with an exception pending, the rejection of run's
\* promise, which nothing handles, so that node ends the process with status 1
finally ==
  /\ pc = "finally"
  /\ tmpdir' = IF tarFile # <<>> THEN {f \in tmpdir : f.name # tarFile[1]}
               ELSE tmpdir
  /\ IF pending # <<>>
       THEN pc' = "exited" /\ exitCode' = 1
       ELSE pc' = "removeLockfile" /\ exitCode' = exitCode
  /\ UNCHANGED <<static, template, projDir, tarFile, tempFile, pending, cwd,
                 spinner, packageManager, history, output, fetched>>

-----------------------------------------------------------------------------
(* The clone revision: validation and fetch (index.js 23-71, 125-184) *)

\* validateTemplate, checkForValidTemplate and getRepository: a GET of the
\* repository's page, unless getRepository throws first
validateTemplateClone ==
  /\ pc = "validateTemplate"
  /\ revision = "clone"
  /\ \E response \in {"200", "404", "network error"} :
       LET repository == getRepository(template)
           \* only the names of the map are repositories that exist
           exists == repository # <<>> /\ repository[1] \in RepositoryNames
           valid == repository # <<>> /\ response = "200" IN
       /\ response = "200" => exists
       /\ history' = history \o
            (IF repository = <<>> THEN <<>>
             ELSE <<Event("get", repository, FALSE, IF response = "200" THEN 0 ELSE 1)>>) \o
            <<Event("validateTemplate", <<template>>, FALSE, IF valid THEN 0 ELSE 1)>>
       /\ IF ~valid
            THEN /\ output' = Append(output, Message("Template is not valid", <<template>>))
                 /\ pc' = "exited"
                 /\ exitCode' = 1
            ELSE /\ output' = output
                 /\ pc' = "createProjectDirectory"
                 /\ exitCode' = exitCode
  /\ UNCHANGED <<static, template, projDir, tmpdir, tarFile, tempFile, pending,
                 cwd, spinner, packageManager, fetched>>

\* cloneRepository's git clone --depth=1 into the new directory: the
\* template's files and the one commit of its history
cloneRepository ==
  /\ pc = "cloneRepository"
  /\ \E result \in SpawnResults, tree \in TemplateTrees, m \in TemplateManifests,
        branch \in DefaultBranches :
       /\ execCommand("git", <<"clone", "--depth=1", getRepository(template)[1], appName>>,
                      TRUE, result)
       /\ IF result.status = 0
            THEN /\ projDir' = [projDir EXCEPT
                      !.files = tree,
                      !.manifest = manifestOf(tree, m),
                      !.git = [exists |-> TRUE, inherited |-> TRUE, commits |-> 1,
                               branch |-> branch, staged |-> FALSE]]
                 /\ fetched' = [files |-> tree, manifest |-> manifestOf(tree, m)]
            ELSE UNCHANGED <<projDir, fetched>>
       /\ IF commandFailed(result) THEN TRUE ELSE pc' = "buildPackageJson"
  /\ UNCHANGED <<static, template, tmpdir, tarFile, tempFile, pending, cwd,
                 spinner, packageManager>>

-----------------------------------------------------------------------------
(* Install and repository initialization (index.js 497-569, 186-235) *)

\* variant: the comparison made with 'npm'
removesLockfileUnlessNpm(manager) == manager # "npm"

\* installDependencies' condition for deleting the shipped lockfile
removesLockfile(manager) == manager # "pnpm"

\* the helper that deletes path: npx rimraf, or pnpm dlx rimraf under pnpm
rimrafCommand(manager, path) ==
  IF manager = "pnpm" THEN <<"pnpm", "dlx", "rimraf", path>>
  ELSE <<"npx", "rimraf", path>>

\* installDependencies up to the deletion of the lockfile (497-511, 186-200)
removeLockfile ==
  /\ pc = "removeLockfile"
  /\ packageManager' = getPackageManager(env)
  /\ IF removesLockfile(packageManager')
       THEN \E result \in SpawnResults :
              LET cmd == rimrafCommand(packageManager', "./pnpm-lock.yaml")
                  \* the path is relative: the lockfile of process.cwd()
                  removed == result.status = 0 IN
              /\ execCommand(Head(cmd), Tail(cmd), TRUE, result)
              /\ projDir' = IF removed /\ cwd = "project"
                              THEN [projDir EXCEPT !.files = @ \ {Lockfile}]
                              ELSE projDir
              /\ invocationDir' = IF removed /\ cwd # "project"
                                    THEN [invocationDir EXCEPT !.files = @ \ {Lockfile}]
                                    ELSE invocationDir
              /\ IF commandFailed(result) THEN TRUE ELSE pc' = "install"
       ELSE /\ pc' = "install"
            /\ UNCHANGED <<projDir, invocationDir, history, output, exitCode>>
  /\ UNCHANGED <<fixed, template, tmpdir, tarFile, tempFile, pending, cwd,
                 spinner, fetched>>

\* installDependencies from the indicator on: <manager> install, streamed
\* (513-535, 202-205).  execCommand exits the process itself, so the catch
\* block never sees a failed install.
install ==
  /\ pc = "install"
  /\ \E result \in SpawnResults :
       /\ execCommand(packageManager, <<"install">>, FALSE, result)
       /\ projDir' = IF result.status = 0
                       THEN [projDir EXCEPT !.nodeModules = TRUE]
                       ELSE projDir
       /\ IF commandFailed(result)
            THEN spinner' = IF revision = "tarball" THEN "spinning" ELSE spinner
            ELSE /\ spinner' = IF revision = "tarball" THEN "succeed" ELSE spinner
                 /\ pc' = IF revision = "tarball" THEN "gitInit" ELSE "removeGit"
  /\ UNCHANGED <<static, template, tmpdir, tarFile, tempFile, pending, cwd,
                 packageManager, fetched>>

\* a git command of initializeGitRepository with its effect on the repository
gitCommand(args, effect, next, started, ended) ==
  \E result \in SpawnResults :
    /\ execCommand("git", args, TRUE, result)
    /\ projDir' = IF result.status = 0 THEN [projDir EXCEPT !.git = effect]
                  ELSE projDir
    /\ IF commandFailed(result)
         THEN spinner' = IF revision = "tarball" THEN started ELSE spinner
         ELSE /\ spinner' = IF revision = "tarball" THEN ended ELSE spinner
              /\ pc' = next
    /\ UNCHANGED <<static, template, tmpdir, tarFile, tempFile, pending, cwd,
                   packageManager, fetched>>

\* variant: the removal misses the directory
gitAfterRemoveKept(git) == git

\* the repository left by rimraf ./.git
gitAfterRemove(git) == NoGit

\* the clone revision's initializeGitRepository removes ./.git first (208-222)
removeGit ==
  /\ pc = "removeGit"
  /\ \E result \in SpawnResults :
       LET cmd == rimrafCommand(getPackageManager(env), "./.git") IN
       /\ execCommand(Head(cmd), Tail(cmd), TRUE, result)
       /\ projDir' = IF result.status = 0
                       THEN [projDir EXCEPT !.git = gitAfterRemove(projDir.git)]
                     ELSE projDir
       /\ IF commandFailed(result) THEN TRUE ELSE pc' = "gitInit"
  /\ UNCHANGED <<static, template, tmpdir, tarFile, tempFile, pending, cwd,
                 spinner, packageManager, fetched>>

\* git init: a new repository, or the existing one left as it is
gitInit ==
  /\ pc = "gitInit"
  /\ \E branch \in DefaultBranches :
       gitCommand(<<"init">>,
                  IF projDir.git.exists THEN projDir.git
                  ELSE [exists |-> TRUE, inherited |-> FALSE, commits |-> 0,
                        branch |-> branch, staged |-> FALSE],
                  "gitAdd", "spinning", "spinning")

gitAdd ==
  /\ pc = "gitAdd"
  /\ gitCommand(<<"add", ".">>, [projDir.git EXCEPT !.staged = TRUE],
                "gitCommit", "spinning", "spinning")

gitCommit ==
  /\ pc = "gitCommit"
  /\ gitCommand(<<"commit", "-m", "initial commit">>,
                [projDir.git EXCEPT !.commits = @ + 1, !.staged = FALSE],
                "gitBranch", "spinning", "spinning")

gitBranch ==
  /\ pc = "gitBranch"
  /\ gitCommand(<<"branch", "-m", "main">>, [projDir.git EXCEPT !.branch = "main"],
                "showCompletionMessage", "spinning", "succeed")

\* showCompletionMessage, after which run returns and the process ends
showCompletionMessage ==
  /\ pc = "showCompletionMessage"
  /\ output' = output \o <<Message("cd", <<appName>>),
                           Message("start", getStartScript(revision, template, env))>>
  /\ pc' = "exited"
  /\ exitCode' = 0
  /\ UNCHANGED <<static, template, projDir, tmpdir, tarFile, tempFile, pending,
                 cwd, spinner, packageManager, history, fetched>>

-----------------------------------------------------------------------------
(* The next invocation *)

\* the tool is invoked again in the same directory, on what the last
\* invocation left on disk
Reinvoke ==
  /\ pc = "exited"
  /\ runNo < MaxRuns
  /\ runNo' = runNo + 1
  /\ argv' \in Argvs
  /\ previous' =
       <<[exitCode |-> exitCode,
          madeDirectory |-> \E i \in 1..Len(history) :
                              history[i].op = "mkdir" /\ history[i].status = 0,
          repeated |-> argv' = argv]>>
  /\ clock' = clock + 1
  /\ pc' = "init"
  /\ exitCode' = 0
  /\ template' = ""
  /\ tarFile' = <<>>
  /\ tempFile' = <<>>
  /\ pending' = <<>>
  /\ cwd' = "invocation"
  /\ spinner' = "none"
  /\ packageManager' = ""
  /\ history' = <<>>
  /\ output' = <<>>
  /\ fetched' = NothingFetched
  /\ dirAtStart' = projDir
  /\ UNCHANGED <<revision, env, invocationDir, projDir, tmpdir, self, suspended>>

Next ==
  \/ init
  \/ validateTemplate
  \/ validateTemplateClone
  \/ createProjectDirectory
  \/ downloadTarball
  \/ pipeline
  \/ extractTemplate
  \/ cloneRepository
  \/ buildPackageJson
  \/ finally
  \/ removeLockfile
  \/ install
  \/ removeGit
  \/ gitInit
  \/ gitAdd
  \/ gitCommit
  \/ gitBranch
  \/ showCompletionMessage
  \/ Reinvoke

Spec == Init /\ [][Next]_vars

-----------------------------------------------------------------------------
(* getPackageManager on its own: every user agent up to MaxUALen *)

Letters == {"y", "a", "r", "n", "p", "m", "b", "u"}

UserAgents == UNION {[1..n -> Letters] : n \in 0..MaxUALen}

InitUA ==
  /\ env \in {<<>>} \cup {<<s>> : s \in UserAgents}
  /\ pc = "getPackageManager"
  /\ revision = "tarball"
  /\ argv = [args |-> <<AppName>>, template |-> <<>>]
  /\ exitCode = 0
  /\ template = "next"
  /\ projDir = NoDir
  /\ tmpdir = {}
  /\ invocationDir = InvocationDirAtStart
  /\ tarFile = <<>>
  /\ tempFile = <<>>
  /\ pending = <<>>
  /\ cwd = "invocation"
  /\ spinner = "none"
  /\ packageManager = ""
  /\ history = <<>>
  /\ output = <<>>
  /\ fetched = NothingFetched
  /\ dirAtStart = projDir
  /\ runNo = 1
  /\ previous = <<>>
  /\ clock = 1
  /\ self = 1
  /\ suspended = <<>>

\* const packageManager = getPackageManager()
callGetPackageManager ==
  /\ pc = "getPackageManager"
  /\ packageManager' = getPackageManager(env)
  /\ pc' = "returned"
  /\ UNCHANGED <<static, exitCode, template, projDir, tmpdir, tarFile, tempFile,
                 pending, cwd, spinner, history, output, fetched>>

NextUA == callGetPackageManager

SpecUA == InitUA /\ [][NextUA]_vars

-----------------------------------------------------------------------------
(* Properties *)

Indices == 1..Len(history)

\* the template identifier the command line asks for
requested == IF argv.template = <<>> THEN "next" ELSE argv.template[1]

Happened(op) == \E i \in Indices : history[i].op = op
Succeeded(op) == \E i \in Indices : history[i].op = op /\ history[i].status = 0

IsExec(i, arg) == history[i].op = "exec" /\ history[i].arg = arg

Exited == pc = "exited"

\* C1: in the tarball revision, for a template identifier that is not a key
\* listed in TEMPLATE_MAP, the run ends with a non-zero status, no directory
\* is made at cwd/appName and no fetch of the archive is started.
C1_UnknownTemplateRejected ==
  (revision = "tarball" /\ requested \notin DOMAIN TEMPLATE_MAP) =>
    /\ Exited => exitCode # 0
    /\ ~Succeeded("mkdir")
    /\ projDir = dirAtStart
    /\ ~Happened("fetch")

\* C2: when the process ends, the temporary archive file this run created in
\* the temp directory no longer exists.
C2_TempFileRemovedAtExit ==
  (Exited /\ tempFile # <<>>) => \A f \in tmpdir : f.name # tempFile[1]

\* C3: once buildPackageJson has rewritten the manifest, and so after a
\* successful run, the project's manifest M' relates to the fetched manifest M
\* so: no description, no author, name = app name, version = 0.1.0, and every
\* other key is in M' exactly when it is in M, with M's value.
C3_ManifestContract ==
  Succeeded("buildPackageJson") =>
    /\ fetched.manifest.state = "object"
    /\ projDir.manifest.state = "object"
    /\ LET M  == fetched.manifest.obj
           M2 == projDir.manifest.obj
           others == ((DOMAIN M) \cup (DOMAIN M2))
                       \ {"description", "author", "name", "version"}
       IN  /\ "description" \notin DOMAIN M2
           /\ "author" \notin DOMAIN M2
           /\ "name" \in DOMAIN M2 /\ M2["name"] = AppName
           /\ "version" \in DOMAIN M2 /\ M2["version"] = "0.1.0"
           /\ \A k \in others :
                k \in DOMAIN M /\ k \in DOMAIN M2 /\ M2[k] = M[k]

\* C3 witness: a run ended with status 0 on a template whose manifest had a
\* description, an author, a name and a version of its own, and another key.
C3_Witness ==
  /\ Exited /\ exitCode = 0
  /\ {"description", "author", "name", "version", "scripts"} \subseteq DOMAIN fetched.manifest.obj
  /\ "private" \notin DOMAIN fetched.manifest.obj
  /\ projDir.manifest.obj["scripts"] = "kit"

\* C4: if an entry exists at cwd/appName when createProjectDirectory runs, the
\* run ends there with a non-zero status and the entry is as it was: nothing
\* is fetched, extracted, written or executed after the failed mkdir.  So it
\* is for a second run after a first successful one.
C4_ExistingEntryUntouched ==
  (Happened("mkdir") /\ dirAtStart.exists) =>
    /\ Exited /\ exitCode # 0
    /\ projDir = dirAtStart
    /\ history[Len(history)].op = "mkdir"
    /\ \A i \in Indices :
         history[i].op \notin {"fetch", "pipeline", "extract", "buildPackageJson", "exec"}
    /\ cwd = "invocation"
    /\ output[Len(output)] = Message("already exists", <<AppName>>)

\* C4 witness: the second run, on the directory a successful first run made
C4_Witness ==
  /\ runNo = 2 /\ Len(previous) = 1 /\ previous[1].exitCode = 0
  /\ Exited /\ exitCode = 1
  /\ Happened("mkdir")
  /\ dirAtStart.nodeModules
  /\ projDir = dirAtStart

\* the steps a complete run of the revision consists of, as they appear in
\* the history
InstallEvent(i) == IsExec(i, <<packageManager, "install">>)
LockfileEvent(i) ==
  /\ history[i].op = "exec"
  /\ history[i].arg[Len(history[i].arg)] = "./pnpm-lock.yaml"

StepFailed ==
  \/ argv.args = <<>>
  \/ \E i \in Indices : history[i].status # 0

RanToCompletion ==
  /\ Succeeded("validateTemplate")
  /\ Succeeded("mkdir")
  /\ revision = "tarball" => Succeeded("fetch") /\ Succeeded("pipeline") /\ Succeeded("extract")
  /\ revision = "clone" =>
       \E i \in Indices : /\ history[i].op = "exec" /\ history[i].status = 0
                          /\ SubSeq(history[i].arg, 1, 2) = <<"git", "clone">>
  /\ Succeeded("buildPackageJson")
  /\ \E i \in Indices : InstallEvent(i) /\ history[i].status = 0
  /\ \A args \in {<<"git", "init">>, <<"git", "add", ".">>,
                  <<"git", "commit", "-m", "initial commit">>,
                  <<"git", "branch", "-m", "main">>} :
       \E i \in Indices : IsExec(i, args) /\ history[i].status = 0

\* C5: the process ends with status 0 exactly when no step of the run failed,
\* and then every step has been carried out; a failed step ends it with a
\* non-zero status.
C5_ExitZeroIffAllSucceeded ==
  Exited =>
    /\ exitCode = 0 <=> ~StepFailed
    /\ exitCode = 0 => RanToCompletion

\* C5 witness: a run ended by a signal that killed a git command
C5_Witness ==
  /\ Exited /\ exitCode # 0
  /\ \E i \in Indices :
       IsExec(i, <<"git", "commit", "-m", "initial commit">>) /\ history[i].status = NullStatus

\* C6: after a run that ends with status 0 the project directory holds a
\* repository with exactly one commit, on branch main, that is not the
\* repository of the template's source.
C6_FreshSingleCommitOnMain ==
  (Exited /\ exitCode = 0) =>
    /\ projDir.git.exists
    /\ projDir.git.commits = 1
    /\ projDir.git.branch = "main"
    /\ ~projDir.git.inherited

\* C6 witness: a successful run of the clone revision, whose clone brought
\* the template's .git along, with git naming the first branch master
C6_Witness ==
  /\ Exited /\ exitCode = 0
  /\ revision = "clone"
  /\ \E i \in Indices : IsExec(i, <<"npx", "rimraf", "./.git">>)
  /\ projDir.git.commits = 1

\* the first manager of order whose prefix the user agent starts with
RECURSIVE firstMatch(_, _)
firstMatch(order, userAgent) ==
  IF order = <<>> THEN "npm"
  ELSE IF startsWith(userAgent, Head(order)[1]) THEN Head(order)[2]
  ELSE firstMatch(Tail(order), userAgent)

PrefixChecks == {<<Yarn, "yarn">>, <<Pnpm, "pnpm">>, <<Bun, "bun">>}

Orders == {o \in [1..3 -> PrefixChecks] : \A i, j \in 1..3 : i # j => o[i] # o[j]}

\* C7: getPackageManager returns yarn, pnpm or bun when the user agent starts
\* with that name and npm otherwise, also for an empty or unset variable; the
\* result is the same whatever the order of the three prefix checks, and the
\* variable is not written.
C7_Detected ==
  pc = "returned" =>
    LET userAgent == IF env = <<>> THEN <<>> ELSE env[1] IN
    /\ startsWith(userAgent, Yarn) => packageManager = "yarn"
    /\ startsWith(userAgent, Pnpm) => packageManager = "pnpm"
    /\ startsWith(userAgent, Bun) => packageManager = "bun"
    /\ (~startsWith(userAgent, Yarn) /\ ~startsWith(userAgent, Pnpm)
          /\ ~startsWith(userAgent, Bun)) => packageManager = "npm"
    /\ \A o \in Orders : firstMatch(o, userAgent) = packageManager

C7_PackageManagerPure == []C7_Detected /\ [][env' = env]_vars

\* C7 witness: a user agent that starts with bun and goes on
C7_Witness ==
  /\ pc = "returned"
  /\ env # <<>> /\ Len(env[1]) > 3 /\ startsWith(env[1], Bun)
  /\ packageManager = "bun"

\* C8: an install that does not end with status 0 is fatal: the failure is
\* printed with the command's name, the process ends with a non-zero status,
\* and nothing is executed after it: no second install, no git command, no
\* completion message.
C8_InstallFailureFatal ==
  /\ Cardinality({i \in Indices : InstallEvent(i)}) <= 1
  /\ \A i \in Indices :
       (InstallEvent(i) /\ history[i].status # 0) =>
         /\ Exited /\ exitCode # 0
         /\ i = Len(history)
         /\ output[Len(output)] = Message("Command failed", <<packageManager>>)
         /\ \A k \in 1..Len(output) : output[k].msg \notin {"cd", "start"}

\* C8 witness: the install command could not be started
C8_Witness ==
  /\ Exited
  /\ \E i \in Indices : InstallEvent(i) /\ history[i].status = NullStatus

C10_LockfileBeforeInstall ==
  /\ \A j \in Indices :
       (InstallEvent(j) /\ packageManager \in {"yarn", "bun", "npm"}) =>
         /\ j > 1
         /\ history[j - 1] = Event("exec", <<"npx", "rimraf", "./pnpm-lock.yaml">>, TRUE, 0)
         /\ Lockfile \notin projDir.files
  /\ (pc \in {"install"} /\ packageManager \in {"yarn", "bun", "npm"}) =>
       /\ history[Len(history)] = Event("exec", <<"npx", "rimraf", "./pnpm-lock.yaml">>, TRUE, 0)
       /\ Lockfile \notin projDir.files
  /\ packageManager = "pnpm" =>
       /\ \A i \in Indices : ~LockfileEvent(i)
       /\ Lockfile \in fetched.files => Lockfile \in projDir.files
  /\ \A i \in Indices :
       (LockfileEvent(i) /\ history[i].status # 0) =>
         Exited /\ exitCode # 0 /\ i = Len(history)

\* C10 witness: bun's install starts after the helper deleted the lockfile
\* the template shipped
C10_Witness ==
  /\ packageManager = "bun"
  /\ Lockfile \in fetched.files
  /\ \E j \in Indices : InstallEvent(j)

\* operations that make a directory or fetch content
ProvisioningOps == {"mkdir", "fetch", "pipeline", "extract", "exec", "buildPackageJson"}

Supported(rev) ==
  IF rev = "tarball" THEN DOMAIN TEMPLATE_MAP ELSE DOMAIN repositoryAliasMap

\* the next-step command the completion message is to show
ExpectedStartScript(t, manager) ==
  <<manager, "run", IF t = "extension" THEN "build" ELSE "dev">>

StartMessages == {k \in 1..Len(output) : output[k].msg = "start"}

\* C12: showCompletionMessage is reached only with a supported template
\* identifier; for every supported identifier getStartScript gives a command
\* that is not empty, <manager> run build for extension and <manager> run dev
\* for the others, so the message never shows the empty default.
C12_StartScriptOfSupportedTemplate ==
  /\ (pc = "showCompletionMessage" \/ StartMessages # {}) =>
       template \in Supported(revision)
  /\ \A k \in StartMessages :
       /\ output[k].arg # <<>>
       /\ output[k].arg = ExpectedStartScript(template, getPackageManager(env))
  /\ \A t \in Supported(revision) :
       getStartScript(revision, t, env) = ExpectedStartScript(t, getPackageManager(env))

\* C12 witness: the completion message of an astro project made under yarn
C12_Witness ==
  /\ Exited /\ exitCode = 0
  /\ template = "astro"
  /\ output[Len(output)] = Message("start", <<"yarn", "run", "dev">>)

\* what an event of the history did: the command line of a subprocess, the
\* name of any other operation
Key(e) == IF e.op = "exec" THEN e.arg ELSE <<e.op>>

GitSubSteps ==
  << <<"git", "init">>, <<"git", "add", ".">>,
     <<"git", "commit", "-m", "initial commit">>, <<"git", "branch", "-m", "main">> >>

\* the operations of a complete run, in the order of run's statements:
\* validate, make the directory, fetch and extract, rewrite the manifest,
\* install, initialize the repository
ExpectedSteps ==
  LET manager == getPackageManager(env)
      lockfile == IF manager = "pnpm" THEN <<>>
                  ELSE << <<"npx", "rimraf", "./pnpm-lock.yaml">> >>
      dotGit == IF manager = "pnpm" THEN <<"pnpm", "dlx", "rimraf", "./.git">>
                ELSE <<"npx", "rimraf", "./.git">>
      manifest == << <<"chdir">>, <<"buildPackageJson">> >>
      installation == lockfile \o << <<manager, "install">> >>
  IN  IF revision = "tarball"
        THEN << <<"validateTemplate">>, <<"mkdir">>,
                <<"fetch">>, <<"pipeline">>, <<"extract">> >>
             \o manifest \o installation \o GitSubSteps
        ELSE IF template \notin DOMAIN repositoryAliasMap \cup DOMAIN ObjectPrototype
          THEN << <<"validateTemplate">> >>
          ELSE << <<"get">>, <<"validateTemplate">>, <<"mkdir">>,
                  <<"git", "clone", "--depth=1",
                    getProperty(repositoryAliasMap, template), AppName>> >>
               \o manifest \o installation \o <<dotGit>> \o GitSubSteps

\* C13: the operations of a run are an initial part of the fixed sequence
\* validate, make the directory, fetch and extract, rewrite the manifest,
\* install, initialize the repository, and the completion message follows the
\* whole of it; no operation is in the sequence twice; an operation starts
\* only after the one before it succeeded, and nothing follows a failure.
C13_FixedOrderNoRepeat ==
  LET expected == ExpectedSteps
      last == Len(history)
  IN  /\ last <= Len(expected)
      /\ \A i \in Indices : Key(history[i]) = expected[i]
      /\ Cardinality({expected[i] : i \in 1..Len(expected)}) = Len(expected)
      /\ \A i \in Indices :
           history[i].status # 0 =>
             /\ pc \in {"exited", "finally"}
             /\ StartMessages = {}
             \* the validation of the clone revision is the request and its verdict
             /\ \/ i = last
                \/ /\ history[i].op = "get"
                   /\ i + 1 = last
                   /\ history[last].op = "validateTemplate"
                   /\ history[last].status # 0
      /\ (pc = "showCompletionMessage" \/ StartMessages # {}) =>
           /\ last = Len(expected)
           /\ \A i \in Indices : history[i].status = 0
      /\ Cardinality(StartMessages) <= 1

\* C13 witness: a run of the tarball revision that got as far as git add and
\* failed there
C13_Witness ==
  /\ revision = "tarball"
  /\ Exited /\ exitCode # 0
  /\ Len(history) = Len(ExpectedSteps) - 2
  /\ history[Len(history)].status # 0

\* C14: the process never ends while a progress indicator it started is still
\* spinning: each wrapped step (fetch and extract, install, repository
\* initialization) has brought its indicator to succeed or fail by then.
C14_IndicatorTerminalAtExit == Exited => spinner # "spinning"

\* the command that removes ./.git
RemoveDotGit ==
  IF getPackageManager(env) = "pnpm" THEN <<"pnpm", "dlx", "rimraf", "./.git">>
  ELSE <<"npx", "rimraf", "./.git">>

\* what the run executed after the install command: the sub-steps of
\* initializeGitRepository
InitializerEvents ==
  IF \E k \in Indices : InstallEvent(k)
    THEN LET k == CHOOSE k \in Indices : InstallEvent(k)
         IN  SubSeq(history, k + 1, Len(history))
    ELSE <<>>

\* the initializer follows steps: in that order, each silent and only after
\* the ones before it ended with status 0; the first that fails ends the run
\* with a non-zero status and the message naming its command, and the
\* repository stays as the earlier sub-steps left it
InitializerFollows(steps) ==
  LET done == InitializerEvents
      n == Len(done)
      ok(step) == \E i \in 1..n : Key(done[i]) = step /\ done[i].status = 0
  IN  /\ n <= Len(steps)
      /\ \A i \in 1..n : Key(done[i]) = steps[i] /\ done[i].silent
      /\ \A i \in 1..n :
           done[i].status # 0 =>
             /\ i = n
             /\ Exited /\ exitCode # 0
             /\ output[Len(output)] = Message("Command failed", <<steps[i][1]>>)
             /\ StartMessages = {}
      /\ (ok(RemoveDotGit) /\ ~ok(GitSubSteps[1])) => projDir.git = NoGit
      /\ ok(GitSubSteps[1]) => projDir.git.exists /\ ~projDir.git.inherited
      /\ (ok(GitSubSteps[2]) /\ ~ok(GitSubSteps[3])) => projDir.git.staged
      /\ ok(GitSubSteps[3]) => projDir.git.commits = 1 /\ ~projDir.git.staged
      /\ ok(GitSubSteps[4]) => projDir.git.branch = "main"

\* C15 as stated: the initializer's sub-steps are, in this order, the removal
\* of an existing ./.git, git init, git add ., git commit -m "initial commit",
\* git branch -m main; each runs only if the earlier ones ended with status 0,
\* the first failure ends the run with a non-zero status and names the
\* command, and earlier effects stay.
C15_RemovalThenGitSubSteps == InitializerFollows(<<RemoveDotGit>> \o GitSubSteps)

\* the sub-steps of the revision: only the clone revision, whose clone brings
\* a .git along, removes it first
InitializerSteps(rev) ==
  IF rev = "clone" THEN <<RemoveDotGit>> \o GitSubSteps ELSE GitSubSteps

\* C15 amended: the clone revision's initializer removes ./.git and then runs
\* git init, git add ., git commit -m "initial commit", git branch -m main;
\* the tarball revision's runs the four git commands only.  In both each
\* sub-step runs only if the earlier ones ended with status 0, the first
\* failure ends the run with a non-zero status and names the command, and
\* earlier effects stay.
C15_SubStepsOfRevision == InitializerFollows(InitializerSteps(revision))

\* C15 witness: the tarball revision's git commit fails after init and add
C15_Witness ==
  /\ revision = "tarball"
  /\ Exited /\ exitCode # 0
  /\ Len(InitializerEvents) = 3
  /\ projDir.git.staged

\* an install command of whatever manager
AnyInstall(i) ==
  /\ history[i].op = "exec"
  /\ Len(history[i].arg) = 2
  /\ history[i].arg[2] = "install"

ChdirEvents == {i \in Indices : history[i].op = "chdir"}

\* the event that completes the fetch of the revision
FetchCompleted(e) ==
  /\ e.status = 0
  /\ IF revision = "tarball" THEN e.op = "extract"
     ELSE e.op = "exec" /\ SubSeq(e.arg, 1, 2) = <<"git", "clone">>

\* C17: the working directory is changed at most once in a run, to
\* cwd/appName, and not back: right after the fetch and extraction completed
\* and before the manifest is rewritten, exactly once in a run that reaches
\* the rewrite; the install and the repository commands run in the project
\* directory.
C17_OneChdirIntoProject ==
  LET changes == ChdirEvents IN
  /\ Cardinality(changes) <= 1
  /\ cwd = (IF changes = {} THEN "invocation" ELSE "project")
  /\ \A i \in changes :
       /\ history[i].arg = <<AppName>>
       /\ i > 1 /\ FetchCompleted(history[i - 1])
       /\ \A j \in Indices : history[j].op = "buildPackageJson" => j = i + 1
  /\ \A j \in Indices :
       \/ history[j].op \notin {"buildPackageJson", "exec"}
       \/ history[j].op = "exec" /\ SubSeq(history[j].arg, 1, 2) = <<"git", "clone">>
       \* the manifest rewrite, the lockfile removal, the install and the
       \* repository commands
       \/ /\ cwd = "project"
          /\ \E i \in changes : i < j
  /\ pc \in {"removeLockfile", "install", "removeGit", "gitInit", "gitAdd",
             "gitCommit", "gitBranch"} => cwd = "project"

\* C17 witness: the clone revision at its install, in the project directory
C17_Witness ==
  /\ revision = "clone"
  /\ pc = "install"
  /\ cwd = "project"
  /\ Succeeded("buildPackageJson")

-----------------------------------------------------------------------------
(* extractTemplate on its own: every entry path up to MaxDepth components *)

\* directories and files an entry path may name; next-app-extra begins with
\* the name of the next template's directory
PathComponents ==
  {<<KitRoot>>, <<"templates">>, <<"next-app">>, <<"next-app", "-extra">>,
   <<"ui-kit">>, <<"package.json">>}

\* the paths of n components
RECURSIVE Paths(_)
Paths(n) ==
  IF n = 1 THEN PathComponents
  ELSE {p \o <<"/">> \o c : p \in Paths(n - 1), c \in PathComponents}

\* the paths an archive entry may have: a file's, or a directory's with its
\* closing separator
EntryPaths ==
  UNION {Paths(n) \cup {p \o <<"/">> : p \in Paths(n)} : n \in 1..MaxDepth}

\* downloadAndExtractTemplate about to call extractTemplate: the directory
\* made, the archive downloaded; the archive is the kit's with one more entry
InitTar ==
  /\ revision = "tarball"
  /\ template \in DOMAIN TEMPLATE_MAP
  /\ argv = [args |-> <<AppName>>, template |-> <<template>>]
  /\ env = <<>>
  /\ pc = "extractTemplate"
  /\ exitCode = 0
  /\ projDir = EmptyDir
  /\ \E p \in EntryPaths :
       tmpdir = {[name |-> 1, complete |-> TRUE,
                  entries |-> Archive({PackageJson}) \cup {p},
                  manifest |-> Malformed]}
  /\ invocationDir = InvocationDirAtStart
  /\ tarFile = <<1>>
  /\ tempFile = <<1>>
  /\ pending = <<>>
  /\ cwd = "invocation"
  /\ spinner = "spinning"
  /\ packageManager = ""
  /\ history = <<Event("validateTemplate", <<template>>, FALSE, 0),
                 Event("mkdir", <<AppName>>, FALSE, 0),
                 Event("fetch", <<"TARBALL_URL">>, FALSE, 0),
                 Event("pipeline", <<>>, FALSE, 0)>>
  /\ output = <<Message("Creating", <<template>>)>>
  /\ fetched = NothingFetched
  /\ dirAtStart = NoDir
  /\ runNo = 1
  /\ previous = <<>>
  /\ clock = 1
  /\ self = 1
  /\ suspended = <<>>

NextTar == extractTemplate

SpecTar == InitTar /\ [][NextTar]_vars

\* s begins with p
HasPrefix(s, p) == \E k \in 0..Len(s) : SubSeq(s, 1, k) = p

\* the entries of the archive extractTemplate reads
ArchiveEntries == UNION {f.entries : f \in {g \in tmpdir : g.name = tarFile[1]}}

\* C18: for a supported template t, extractTemplate writes an archive entry p
\* exactly when p begins with stylish-app-kit-main/templates/<TEMPLATE_MAP[t]>/
\* and writes it at p without that prefix, its first three components; no
\* entry of another template is written, not even one whose directory name
\* begins with the name of t's directory.
C18_ExtractsExactlyTemplatePrefix ==
  (pc = "buildPackageJson" /\ template \in DOMAIN TEMPLATE_MAP) =>
    LET templatePrefix ==
          <<"stylish-app-kit-main", "/", "templates", "/", TEMPLATE_MAP[template], "/">>
        rest(p) == SubSeq(p, Len(templatePrefix) + 1, Len(p))
    IN  /\ \A p \in ArchiveEntries :
             (HasPrefix(p, templatePrefix) /\ p # templatePrefix) =>
               rest(p) \in projDir.files
        /\ \A f \in projDir.files :
             \E p \in ArchiveEntries : HasPrefix(p, templatePrefix) /\ f = rest(p)

\* C18 witness: the archive holds next-app-extra/package.json beside the next
\* template's own files, and the extraction for next wrote only the latter
C18_Witness ==
  /\ pc = "buildPackageJson"
  /\ template = "next"
  /\ <<"stylish-app-kit-main", "/", "templates", "/", "next-app", "-extra", "/",
       "ui-kit">> \in ArchiveEntries
  /\ projDir.files = {PackageJson}

\* C19: in the clone revision validateTemplate lets the run go on exactly
\* when the identifier is a key of repositoryAliasMap and the GET of the
\* repository's page answers 200; for an identifier that is not in the map no
\* request is made; every rejection prints the invalid-template message with
\* the identifier and ends the run with a non-zero status before a directory
\* is made.
C19_CloneValidation ==
  (revision = "clone" /\ Happened("validateTemplate")) =>
    /\ Succeeded("validateTemplate") <=>
         /\ template \in DOMAIN repositoryAliasMap
         /\ Succeeded("get")
    /\ template \notin DOMAIN repositoryAliasMap => ~Happened("get")
    /\ ~Succeeded("validateTemplate") =>
         /\ Exited /\ exitCode # 0
         /\ output = <<Message("Template is not valid", <<template>>)>>
         /\ ~Happened("mkdir")
         /\ projDir = dirAtStart

\* the invocation before this one
LastRun == previous[1]

\* the invocation before this one made the directory and then failed
FollowsFailedProvisioning ==
  /\ previous # <<>>
  /\ LastRun.madeDirectory
  /\ LastRun.exitCode # 0

-----------------------------------------------------------------------------
(* Two invocations at the same time (index.js 571-625 twice) *)

\* the app name of a second invocation that does not use the first one's
OtherAppName == "other-app"

\* what belongs to the running invocation alone: its command line and
\* environment, its locals and its position, and what it has done so far
Context ==
  [id |-> self, argv |-> argv, env |-> env, pc |-> pc, exitCode |-> exitCode,
   template |-> template, tarFile |-> tarFile, tempFile |-> tempFile,
   pending |-> pending, cwd |-> cwd, spinner |-> spinner,
   packageManager |-> packageManager, history |-> history, output |-> output,
   fetched |-> fetched, dirAtStart |-> dirAtStart, projDir |-> projDir]

\* the invocation a process starts with: init not yet entered
Invocation(id, args) ==
  [id |-> id, argv |-> [args |-> args, template |-> <<>>], env |-> <<>>,
   pc |-> "init", exitCode |-> 0, template |-> "", tarFile |-> <<>>,
   tempFile |-> <<>>, pending |-> <<>>, cwd |-> "invocation", spinner |-> "none",
   packageManager |-> "", history |-> <<>>, output |-> <<>>,
   fetched |-> NothingFetched, dirAtStart |-> NoDir, projDir |-> NoDir]

\* the scheduler hands the processor to the other invocation.  projDir is
\* the entry at cwd/appName: the same entry for both when they were given the
\* same name in the same directory, each one's own otherwise.
Switch ==
  /\ suspended # <<>>
  /\ suspended[1].pc # "exited"
  /\ LET other == suspended[1] IN
     /\ suspended' = <<Context>>
     /\ self' = other.id
     /\ argv' = other.argv
     /\ env' = other.env
     /\ pc' = other.pc
     /\ exitCode' = other.exitCode
     /\ template' = other.template
     /\ tarFile' = other.tarFile
     /\ tempFile' = other.tempFile
     /\ pending' = other.pending
     /\ cwd' = other.cwd
     /\ spinner' = other.spinner
     /\ packageManager' = other.packageManager
     /\ history' = other.history
     /\ output' = other.output
     /\ fetched' = other.fetched
     /\ dirAtStart' = other.dirAtStart
     /\ projDir' = IF other.argv.args = argv.args THEN projDir ELSE other.projDir
  /\ UNCHANGED <<revision, tmpdir, invocationDir, runNo, previous, clock>>

\* a millisecond passes
Tick ==
  /\ clock < MaxClock
  /\ clock' = clock + 1
  /\ UNCHANGED <<revision, argv, env, pc, exitCode, template, projDir, tmpdir,
                 invocationDir, tarFile, tempFile, pending, cwd, spinner,
                 packageManager, history, output, fetched, dirAtStart, runNo,
                 previous, self, suspended>>

\* the kit as it is published: every template with its package.json, its
\* lockfile and a source file
PublishedKit ==
  \A f \in tmpdir :
    /\ f.entries = Archive({PackageJson, Lockfile, SourceFile})
    /\ f.manifest = Object([k \in {"name", "scripts"} |-> "kit"])

\* the download of the published kit
pipelinePublished == pipeline /\ PublishedKit'

\* two invocations of the tarball revision started in the same directory,
\* with the same app name or with different ones, the directory not there yet
InitPar ==
  /\ revision = "tarball"
  /\ \E args \in {<<AppName>>, <<OtherAppName>>} :
       suspended = <<Invocation(2, args)>>
  /\ self = 1
  /\ argv = [args |-> <<AppName>>, template |-> <<>>]
  /\ env = <<>>
  /\ pc = "init"
  /\ exitCode = 0
  /\ template = ""
  /\ projDir = NoDir
  /\ tmpdir = {}
  /\ invocationDir = InvocationDirAtStart
  /\ tarFile = <<>>
  /\ tempFile = <<>>
  /\ pending = <<>>
  /\ cwd = "invocation"
  /\ spinner = "none"
  /\ packageManager = ""
  /\ history = <<>>
  /\ output = <<>>
  /\ fetched = NothingFetched
  /\ dirAtStart = NoDir
  /\ runNo = 1
  /\ previous = <<>>
  /\ clock = 1

NextPar ==
  \/ init
  \/ validateTemplate
  \/ createProjectDirectory
  \/ downloadTarball
  \/ pipelinePublished
  \/ extractTemplate
  \/ buildPackageJson
  \/ finally
  \/ removeLockfile
  \/ install
  \/ gitInit
  \/ gitAdd
  \/ gitCommit
  \/ gitBranch
  \/ showCompletionMessage
  \/ Switch
  \/ Tick

SpecPar == InitPar /\ [][NextPar]_vars

\* the invocations: the running one and the suspended one
Invocations == {Context} \cup {suspended[i] : i \in 1..Len(suspended)}

\* both invocations were given the same app name (in the same directory)
SameAppName == suspended # <<>> /\ suspended[1].argv.args = argv.args

MadeDirectory(p) ==
  \E i \in 1..Len(p.history) : p.history[i].op = "mkdir" /\ p.history[i].status = 0

FailedToMakeDirectory(p) ==
  \E i \in 1..Len(p.history) : p.history[i].op = "mkdir" /\ p.history[i].status # 0

\* of two invocations with the same app name at most one gets past
\* createProjectDirectory; one that failed there has ended with a non-zero
\* status and has done nothing else
C21_AtMostOnePastMkdir ==
  SameAppName =>
    /\ Cardinality({p \in Invocations : MadeDirectory(p)}) <= 1
    /\ \A p \in Invocations :
         FailedToMakeDirectory(p) =>
           /\ p.pc = "exited" /\ p.exitCode # 0
           /\ p.history[Len(p.history)].op = "mkdir"
           /\ p.tempFile = <<>> /\ p.fetched = NothingFetched
           /\ p.cwd = "invocation"
           /\ p.output[Len(p.output)].msg \in {"already exists", "error"}

\* createProjectDirectory on a directory that is there, made by the other
\* invocation or by anyone: the already-exists message, status 1, and the
\* directory as it was
C21_ExistingMeansAlreadyExists ==
  (pc = "createProjectDirectory" /\ projDir.exists /\ self' = self
     /\ history' # history) =>
    /\ pc' = "exited" /\ exitCode' = 1
    /\ output'[Len(output')] = Message("already exists", <<appName>>)
    /\ projDir' = projDir
    /\ tmpdir' = tmpdir

\* C21: of two invocations running concurrently with the same working
\* directory and app name, under every interleaving at most one gets past
\* createProjectDirectory; the other, finding the directory, ends with the
\* already-exists message and a non-zero status and writes nothing into it.
C21_ConcurrentSameName ==
  /\ []C21_AtMostOnePastMkdir
  /\ [][C21_ExistingMeansAlreadyExists]_vars

\* C21 witness: the first invocation is extracting into the directory it
\* made while the second has ended with the already-exists message
C21_Witness ==
  /\ SameAppName
  /\ self = 1 /\ pc = "extractTemplate" /\ projDir.exists
  /\ suspended[1].pc = "exited"
  /\ suspended[1].output[Len(suspended[1].output)] = Message("already exists", <<AppName>>)

\* the invocation wrote its temporary archive file to the end
WroteArchive(p) ==
  \E i \in 1..Len(p.history) : p.history[i].op = "pipeline" /\ p.history[i].status = 0

\* C22: of two invocations running concurrently with different app names,
\* the temporary archive path one of them chose in downloadTarball is never
\* a path the other one writes, reads or deletes.
C22_TempFileSingleOwner ==
  (suspended # <<>> /\ ~SameAppName) =>
    \A p, q \in Invocations :
      (p.id # q.id /\ WroteArchive(p) /\ WroteArchive(q)) => p.tempFile # q.tempFile

\* C23: a run writes into the new project directory and its temporary
\* archive file only: buildPackageJson reads and writes one and the same
\* file, the project directory's package.json, and nothing that was in the
\* invocation directory, its package.json in particular, is created,
\* overwritten or deleted by any step.
C23_InvocationDirUntouched ==
  /\ invocationDir = InvocationDirAtStart
  /\ \A i \in Indices :
       history[i].op = "buildPackageJson" =>
         /\ history[i].arg[1] = history[i].arg[2]
         /\ history[i].arg[2] = <<"project", "/", "package.json">>
  /\ Succeeded("buildPackageJson") =>
       /\ projDir.manifest.state = "object"
       /\ projDir.manifest.obj["name"] = appName
  /\ \A i \in Indices :
       (LockfileEvent(i) /\ history[i].status = 0) =>
         Lockfile \in invocationDir.files /\ Lockfile \notin projDir.files

\* C23 witness: a complete run under npm, invoked in a directory that has a
\* package.json and a lockfile of its own, on a template that ships both
C23_Witness ==
  /\ Exited /\ exitCode = 0
  /\ Lockfile \in fetched.files
  /\ \E i \in Indices : LockfileEvent(i)
  /\ invocationDir.manifest.obj["name"] = "mine"
  /\ projDir.manifest.obj["name"] = AppName

====
